---- MODULE Spec2Model ----
(***************************************************************************)
(* Reminder registry and lifecycle of bot.py: the two stores               *)
(* hydrate_tasks / stretch_tasks, TASKS_LOCK, the PURGING event, the slash *)
(* command handlers, purge_all_reminders, cancel_loop and the tick of a    *)
(* reminder loop.  Coroutines run on one asyncio event loop: an action is  *)
(* the code a coroutine runs between two suspension points.                *)
(***************************************************************************)
EXTENDS Integers, Sequences, FiniteSets, TLC

\* Bound of the model: number of reminder loops ever created.
MaxTasks == 2

\* Period range of hydrate / stretch.
MinMinutes == 1
MaxMinutes == 1440

Users == {"u1", "u2"}
Kinds == {"hydrate", "stretch"}
Channels == {"c1", "c2"}
\* Handler coroutines that can be suspended at the same time: two serving
\* slash commands, and the one on_disconnect whose purge is under way (a
\* later on_disconnect returns at once while PURGING is set).
CmdCallers == {"a", "b"}
Gateway == "d"
Callers == CmdCallers \cup {Gateway}
\* The (period, channel) pairs a start command may carry: periods below, at
\* and above the ends of the range.
StartInputs ==
    {<<-1, "c1">>, <<0, "c2">>, <<MinMinutes, "c1">>, <<MaxMinutes, "c2">>,
     <<MaxMinutes + 1, "c1">>}
TaskIds == 1..MaxTasks

VARIABLES
    store,      \* store[kind]: the dict of that kind, in insertion order
    TASKS_LOCK, \* the coroutine holding the asyncio.Lock
    waiters,    \* FIFO queue of coroutines suspended in TASKS_LOCK.acquire()
    PURGING,    \* the asyncio.Event
    task,       \* task[t]: the tasks.Loop created by make_reminder_loop
    nextTask,   \* number of loops created so far
    callers,    \* callers[h]: position and locals of a handler coroutine
    out         \* what the step just taken sent or returned to its caller

vars == <<store, TASKS_LOCK, waiters, PURGING, task, nextTask, callers, out>>

----------------------------------------------------------------------------
\* Coroutine identities (lock holder and lock waiters).
NoProc == [c |-> "-", t |-> 0]
CallerProc(h) == [c |-> h, t |-> 0]
TaskProc(t) == [c |-> "-", t |-> t]

\* A loop that has not been created yet.
NoTask == [st |-> "none", uid |-> "-", kind |-> "-", minutes |-> 0]

\* A loop whose asyncio task has ended.
EndedTask == [NoTask EXCEPT !.st = "done"]

\* A loop whose asyncio task, cancelled, has ended with an exception other
\* than CancelledError.
RaisedTask == [NoTask EXCEPT !.st = "raised"]


\* make_reminder_loop + loop.start(): the asyncio task exists and is
\* suspended before its first iteration.
NewTask(u, k, m) ==
    [st |-> "waiting", uid |-> u, kind |-> k, minutes |-> m]

IdleCaller ==
    [pc |-> "idle", op |-> "-", uid |-> "-", kind |-> "-", minutes |-> 0,
     chan |-> "-", wait |-> 0, phase |-> 0, stopped |-> {}, had |-> {},
     was |-> {}, todo |-> <<>>]

\* The answer of a handler: the command, the result, the period it was
\* given, the owner and kind it looked up in the registry, the loop it
\* started or stopped, the kinds stopreminders lists; was: the loops that
\* were running when a purge took the lock (kept for the record; the code
\* does not read it).
NoOut ==
    [op |-> "-", res |-> "-", uid |-> "-", kind |-> "-", minutes |-> 0,
     task |-> 0, stopped |-> {}, was |-> {}]

Emit(h, op, u, k, m, ch, res, t, stopped) ==
    [NoOut EXCEPT !.op = op, !.res = res, !.uid = u, !.kind = k,
                  !.minutes = m, !.task = t, !.stopped = stopped]


\* How a loop's task ended in the step just taken: it returned after
\* loop.stop() ("evicted"), CancelledError ended it ("cancelled"), or an
\* exception of tick did ("failed").
Ended(t, how) ==
    [NoOut EXCEPT !.op = "loop", !.res = how, !.uid = task[t].uid,
                  !.kind = task[t].kind, !.task = t]

----------------------------------------------------------------------------
\* Dict operations on a store kept as a sequence of (uid, task, chan).
IndexOf(s, u) ==
    IF \E i \in 1..Len(s) : s[i].uid = u
    THEN CHOOSE i \in 1..Len(s) : s[i].uid = u
    ELSE 0

RemoveAt(s, i) == SubSeq(s, 1, i - 1) \o SubSeq(s, i + 1, Len(s))

\* A pop that leaves the entry in the dict (a get).
DictPopKeeps(s, u) == s

\* store.pop(uid, None)
DictPop(s, u) == IF IndexOf(s, u) = 0 THEN s ELSE RemoveAt(s, IndexOf(s, u))

\* store[uid] = (loop, channel.id)
DictSet(s, u, e) ==
    IF IndexOf(s, u) = 0 THEN Append(s, e) ELSE [s EXCEPT ![IndexOf(s, u)] = e]

HasEntry(st, k, u) == IndexOf(st[k], u) # 0

EntryTask(st, k, u) == st[k][IndexOf(st[k], u)].task

----------------------------------------------------------------------------
\* asyncio.Lock: release hands the lock to the first waiter.
LockFree == TASKS_LOCK = NoProc

LockAfterRelease == IF waiters = <<>> THEN NoProc ELSE Head(waiters)

WaitersAfterRelease == IF waiters = <<>> THEN <<>> ELSE Tail(waiters)

WithoutProc(q, p) == SelectSeq(q, LAMBDA x : x # p)

----------------------------------------------------------------------------
\* cancel_loop.  loop.is_running(): the loop's asyncio task exists and has
\* not ended.
IsRunning(tk, t) == tk[t].st \notin {"none", "done", "raised"}

\* loop.cancel(): whatever await the loop's task is suspended in (the sleep
\* between ticks, channel.send, TASKS_LOCK.acquire), CancelledError is what
\* it gets when it runs next.
CancelLoopForgets(tk, t) == tk

CancelLoop(tk, t) ==
    IF IsRunning(tk, t) THEN [tk EXCEPT ![t].st = "cancelling"] ELSE tk

MustAwaitNever(tk, t) == FALSE

MustAwait(tk, t) == IsRunning(tk, t)

----------------------------------------------------------------------------
\* Checks of the start handlers.
ValidMinutesNoUpper(m) == MinMinutes <= m

ValidMinutes(m) == MinMinutes <= m /\ m <= MaxMinutes

GateNever == FALSE

GateSet == PURGING

AlreadyActiveNever(st, k, u) == FALSE

AlreadyActiveOtherStore(st, k, u) == HasEntry(st, "hydrate", u)

AlreadyActive(st, k, u) == HasEntry(st, k, u)

\* The store a stop handler of kind k pops from.
StoreOfHydrate(k) == "hydrate"

StoreOf(k) == k

\* purge_all_reminders: the re-entry check, and the value the finally
\* clause leaves in PURGING.
PurgeInProgressNever == FALSE

PurgeInProgress == PURGING

PurgingLeftSet == TRUE

PurgingCleared == FALSE

\* The store make_reminder_loop was given for the loop: tick pops from it.
TickStoreHydrate(t) == "hydrate"

TickStore(t) == task[t].kind

StartsWaiting ==
    Cardinality({h \in Callers :
                    callers[h].pc = "lockwait" /\ callers[h].op = "start"})

----------------------------------------------------------------------------
Init ==
    /\ store = [k \in Kinds |-> <<>>]
    /\ TASKS_LOCK = NoProc
    /\ waiters = <<>>
    /\ PURGING = FALSE
    /\ task = [t \in TaskIds |-> NoTask]
    /\ nextTask = 0
    /\ callers = [h \in Callers |-> IdleCaller]
    /\ out = NoOut

----------------------------------------------------------------------------
\* The reminder loop.  A tick that finds the destination unusable calls
\* loop.stop() and then pops its uid from its store under TASKS_LOCK; with
\* the lock free nothing suspends and the loop ends in the same step.
SelfEvict(t) ==
    IF LockFree
    THEN /\ store' = [store EXCEPT
                        ![TickStore(t)] = DictPop(@, task[t].uid)]
         /\ task' = [task EXCEPT ![t] = EndedTask]
         /\ out' = Ended(t, "evicted")
         /\ UNCHANGED <<TASKS_LOCK, waiters>>
    ELSE /\ task' = [task EXCEPT ![t].st = "lockwait"]
         /\ waiters' = Append(waiters, TaskProc(t))
         /\ out' = NoOut
         /\ UNCHANGED <<store, TASKS_LOCK>>

\* The period has elapsed (or the loop has just been started): tick runs up
\* to channel.send, or evicts itself when send permission is lost.
Tick(t) ==
    /\ task[t].st = "waiting"
    /\ \E perm \in BOOLEAN :
          IF perm
          THEN /\ task' = [task EXCEPT ![t].st = "sending"]
               /\ out' = NoOut
               /\ UNCHANGED <<store, TASKS_LOCK, waiters>>
          ELSE SelfEvict(t)
    /\ UNCHANGED <<PURGING, nextTask, callers>>

\* channel.send returns: delivered, discord.Forbidden, or another error,
\* which tick does not catch and which ends the loop's asyncio task.
SendDone(t) ==
    /\ task[t].st = "sending"
    /\ \E r \in {"ok", "forbidden", "error"} :
          CASE r = "ok" ->
                 /\ task' = [task EXCEPT ![t].st = "waiting"]
                 /\ out' = NoOut
                 /\ UNCHANGED <<store, TASKS_LOCK, waiters>>
            [] r = "forbidden" -> SelfEvict(t)
            [] r = "error" ->
                 /\ task' = [task EXCEPT ![t] = EndedTask]
                 /\ out' = Ended(t, "failed")
                 /\ UNCHANGED <<store, TASKS_LOCK, waiters>>
    /\ UNCHANGED <<PURGING, nextTask, callers>>

\* The self-evicting tick gets TASKS_LOCK: pop, release, return; the loop
\* sees the stop request and ends.
EvictGranted(t) ==
    /\ task[t].st = "lockwait"
    /\ TASKS_LOCK = TaskProc(t)
    /\ store' = [store EXCEPT ![TickStore(t)] = DictPop(@, task[t].uid)]
    /\ task' = [task EXCEPT ![t] = EndedTask]
    /\ TASKS_LOCK' = LockAfterRelease
    /\ waiters' = WaitersAfterRelease
    /\ out' = Ended(t, "evicted")
    /\ UNCHANGED <<PURGING, nextTask, callers>>

\* loop.cancel() was called: CancelledError is raised at the await the
\* loop's task is suspended in (sleep, channel.send or TASKS_LOCK.acquire)
\* and the task ends without running anything else of tick.
CancelEnds(t, ended, how) ==
    /\ task[t].st = "cancelling"
    /\ task' = [task EXCEPT ![t] = ended]
    /\ IF TASKS_LOCK = TaskProc(t)
       THEN /\ TASKS_LOCK' = LockAfterRelease
            /\ waiters' = WaitersAfterRelease
       ELSE /\ waiters' = WithoutProc(waiters, TaskProc(t))
            /\ UNCHANGED TASKS_LOCK
    /\ out' = Ended(t, how)
    /\ UNCHANGED <<store, PURGING, nextTask, callers>>

Cancelled(t) == CancelEnds(t, EndedTask, "cancelled")

\* The cancelled task ends with another exception than CancelledError (one
\* raised while the cancellation unwinds the tick).
CancelRaised(t) == CancelEnds(t, RaisedTask, "raised")

----------------------------------------------------------------------------
\* A handler that answers without touching anything: the message is sent
\* and the coroutine has no code left to run.
Answer(h, op, u, k, m, ch, res) ==
    /\ out' = Emit(h, op, "-", "-", m, ch, res, 0, {})
    /\ UNCHANGED <<store, TASKS_LOCK, waiters, PURGING, task, nextTask,
                   callers>>

\* TASKS_LOCK is held by another coroutine: suspend in acquire().
Enqueue(h, rec) ==
    /\ callers' = [callers EXCEPT ![h] = rec]
    /\ waiters' = Append(waiters, CallerProc(h))
    /\ out' = NoOut
    /\ UNCHANGED <<store, TASKS_LOCK, task, nextTask>>

\* hydrate / stretch inside "async with TASKS_LOCK".  The duplicate answer
\* is awaited with the lock held; the success answer after its release.
StartLocked(h, u, k, m, ch) ==
    IF AlreadyActive(store, k, u)
    THEN /\ callers' = [callers EXCEPT ![h] =
                [IdleCaller EXCEPT !.pc = "reply", !.op = "start"]]
         /\ TASKS_LOCK' = CallerProc(h)
         /\ out' = Emit(h, "start", u, k, m, ch, "already_active", 0, {})
         /\ UNCHANGED <<store, waiters, PURGING, task, nextTask>>
    ELSE /\ nextTask < MaxTasks
         /\ task' = [task EXCEPT ![nextTask + 1] = NewTask(u, k, m)]
         /\ store' = [store EXCEPT ![k] =
                DictSet(@, u, [uid |-> u, task |-> nextTask + 1, chan |-> ch])]
         /\ nextTask' = nextTask + 1
         /\ TASKS_LOCK' = LockAfterRelease
         /\ waiters' = WaitersAfterRelease
         /\ callers' = [callers EXCEPT ![h] = IdleCaller]
         /\ out' = Emit(h, "start", u, k, m, ch, "started", nextTask + 1, {})
         /\ UNCHANGED PURGING

\* /hydrate and /stretch: period check, gate check, permission check, then
\* the registry under the lock.
Start(h, u, k, m, ch, perm) ==
    /\ callers[h].pc = "idle"
    /\ IF ~ValidMinutes(m)
       THEN Answer(h, "start", u, k, m, ch, "invalid_period")
       ELSE IF GateSet
       THEN Answer(h, "start", u, k, m, ch, "reconnecting")
       ELSE IF ~perm
       THEN Answer(h, "start", u, k, m, ch, "permission_denied")
       ELSE IF LockFree
       THEN /\ AlreadyActive(store, k, u) \/ nextTask < MaxTasks
            /\ StartLocked(h, u, k, m, ch)
       ELSE /\ nextTask + StartsWaiting < MaxTasks
            /\ Enqueue(h, [IdleCaller EXCEPT !.pc = "lockwait",
                              !.op = "start", !.uid = u, !.kind = k,
                              !.minutes = m, !.chan = ch])
            /\ UNCHANGED PURGING

\* stophydrate / stopstretch inside "async with TASKS_LOCK": pop, then
\* cancel_loop with the lock held.
StopLocked(h, u, k) ==
    IF ~HasEntry(store, StoreOf(k), u)
    THEN /\ callers' = [callers EXCEPT ![h] =
                [IdleCaller EXCEPT !.pc = "reply", !.op = "stop"]]
         /\ TASKS_LOCK' = CallerProc(h)
         /\ out' = Emit(h, "stop", u, k, 0, "-", "not_active", 0, {})
         /\ UNCHANGED <<store, waiters, PURGING, task, nextTask>>
    ELSE LET t == EntryTask(store, StoreOf(k), u) IN
         /\ store' = [store EXCEPT ![StoreOf(k)] = DictPop(@, u)]
         /\ task' = CancelLoop(task, t)
         /\ IF MustAwait(task, t)
            THEN /\ callers' = [callers EXCEPT ![h] =
                        [IdleCaller EXCEPT !.pc = "join", !.op = "stop",
                                           !.uid = u, !.kind = k,
                                           !.wait = t]]
                 /\ TASKS_LOCK' = CallerProc(h)
                 /\ out' = NoOut
                 /\ UNCHANGED waiters
            ELSE /\ callers' = [callers EXCEPT ![h] = IdleCaller]
                 /\ TASKS_LOCK' = LockAfterRelease
                 /\ waiters' = WaitersAfterRelease
                 /\ out' = Emit(h, "stop", u, k, 0, "-", "stopped", t, {})
         /\ UNCHANGED <<PURGING, nextTask>>

Stop(h, u, k) ==
    /\ callers[h].pc = "idle"
    /\ IF PURGING
       THEN Answer(h, "stop", u, k, 0, "-", "reconnecting")
       ELSE IF LockFree
       THEN StopLocked(h, u, k)
       ELSE /\ Enqueue(h, [IdleCaller EXCEPT !.pc = "lockwait",
                              !.op = "stop", !.uid = u, !.kind = k])
            /\ UNCHANGED PURGING

\* The awaited task of a stop has ended: leave the lock, answer.
StopJoined(h) ==
    /\ callers' = [callers EXCEPT ![h] = IdleCaller]
    /\ TASKS_LOCK' = LockAfterRelease
    /\ waiters' = WaitersAfterRelease
    /\ out' = Emit(h, "stop", callers[h].uid, callers[h].kind, 0, "-",
                   "stopped", callers[h].wait, {})
    /\ UNCHANGED <<store, PURGING, task, nextTask>>

----------------------------------------------------------------------------
\* stopreminders pops the hydrate entry, then the stretch entry.
StopAllKindsHydrateOnly == <<"hydrate">>

StopAllKinds == <<"hydrate", "stretch">>

\* stopreminders inside the lock from the i-th kind on, up to the first
\* await that suspends (wait # 0) or to the end (wait = 0).
RECURSIVE StopAllFrom(_, _, _, _, _)
StopAllFrom(u, i, stopped, st, tk) ==
    IF i > Len(StopAllKinds)
    THEN [store |-> st, task |-> tk, wait |-> 0, phase |-> i,
          stopped |-> stopped]
    ELSE LET k == StopAllKinds[i] IN
         IF ~HasEntry(st, k, u)
         THEN StopAllFrom(u, i + 1, stopped, st, tk)
         ELSE LET t == EntryTask(st, k, u)
                  st2 == [st EXCEPT ![k] = DictPop(@, u)]
              IN  IF MustAwait(tk, t)
                  THEN [store |-> st2, task |-> CancelLoop(tk, t),
                        wait |-> t, phase |-> i, stopped |-> stopped]
                  ELSE StopAllFrom(u, i + 1, stopped \cup {k}, st2,
                                   CancelLoop(tk, t))

\* had: the kinds the owner had an entry of when the handler took the lock
\* (kept for the record; the code does not read it).
StopAllApply(h, u, had, R) ==
    /\ store' = R.store
    /\ task' = R.task
    /\ IF R.wait # 0
       THEN /\ callers' = [callers EXCEPT ![h] =
                   [IdleCaller EXCEPT !.pc = "join", !.op = "stop_all",
                                      !.uid = u, !.wait = R.wait,
                                      !.phase = R.phase,
                                      !.stopped = R.stopped, !.had = had]]
            /\ TASKS_LOCK' = CallerProc(h)
            /\ out' = NoOut
            /\ UNCHANGED waiters
       ELSE /\ callers' = [callers EXCEPT ![h] = IdleCaller]
            /\ TASKS_LOCK' = LockAfterRelease
            /\ waiters' = WaitersAfterRelease
            /\ out' = Emit(h, "stop_all", u, "-", 0, "-",
                           IF R.stopped = {} THEN "none_active"
                                             ELSE "stopped_set",
                           0, R.stopped)
    /\ UNCHANGED <<PURGING, nextTask>>

StopAllLocked(h, u) ==
    StopAllApply(h, u, {k \in Kinds : HasEntry(store, k, u)},
                 StopAllFrom(u, 1, {}, store, task))

StopAll(h, u) ==
    /\ callers[h].pc = "idle"
    /\ IF PURGING
       THEN Answer(h, "stop_all", u, "-", 0, "-", "reconnecting")
       ELSE IF LockFree
       THEN StopAllLocked(h, u)
       ELSE /\ Enqueue(h, [IdleCaller EXCEPT !.pc = "lockwait",
                              !.op = "stop_all", !.uid = u])
            /\ UNCHANGED PURGING

\* The awaited task of stopreminders has ended: append, go on.
StopAllJoined(h) ==
    StopAllApply(h, callers[h].uid, callers[h].had,
                 StopAllFrom(callers[h].uid, callers[h].phase + 1,
                             callers[h].stopped
                                \cup {StopAllKinds[callers[h].phase]},
                             store, task))

----------------------------------------------------------------------------
\* purge_all_reminders drains hydrate_tasks, then stretch_tasks.
PurgeKindsHydrateOnly == <<"hydrate">>

PurgeKindsStretchOnly == <<"stretch">>

PurgeKinds == <<"hydrate", "stretch">>

\* The two for loops of purge_all_reminders from the head of todo (the rest
\* of list(store.items()) of the i-th kind) on, up to the first await that
\* suspends (wait # 0) or to the end (wait = 0): cancel_loop, then pop.
RECURSIVE PurgeItems(_, _, _, _)
PurgeItems(i, todo, st, tk) ==
    IF todo = <<>>
    THEN IF i >= Len(PurgeKinds)
         THEN [store |-> st, task |-> tk, wait |-> 0, phase |-> i,
               todo |-> <<>>]
         ELSE PurgeItems(i + 1, st[PurgeKinds[i + 1]], st, tk)
    ELSE LET e == Head(todo) IN
         IF MustAwait(tk, e.task)
         THEN [store |-> st, task |-> CancelLoop(tk, e.task),
               wait |-> e.task, phase |-> i, todo |-> todo]
         ELSE PurgeItems(i, Tail(todo),
                         [st EXCEPT ![PurgeKinds[i]] = DictPop(@, e.uid)],
                         CancelLoop(tk, e.task))

\* The finally clause clears PURGING when the drain has ended.
PurgeApply(h, was, R) ==
    /\ store' = R.store
    /\ task' = R.task
    /\ IF R.wait # 0
       THEN /\ callers' = [callers EXCEPT ![h] =
                   [IdleCaller EXCEPT !.pc = "join", !.op = "purge",
                                      !.wait = R.wait, !.phase = R.phase,
                                      !.was = was, !.todo = R.todo]]
            /\ TASKS_LOCK' = CallerProc(h)
            /\ PURGING' = TRUE
            /\ out' = NoOut
            /\ UNCHANGED waiters
       ELSE /\ callers' = [callers EXCEPT ![h] = IdleCaller]
            /\ TASKS_LOCK' = LockAfterRelease
            /\ waiters' = WaitersAfterRelease
            /\ PURGING' = PurgingCleared
            /\ out' = [Emit(h, "purge", "-", "-", 0, "-", "purged", 0, {})
                         EXCEPT !.was = was]
    /\ UNCHANGED nextTask

PurgeLocked(h) ==
    PurgeApply(h, {t \in TaskIds : IsRunning(task, t)},
               PurgeItems(1, store[PurgeKinds[1]], store, task))

\* on_disconnect -> purge_all_reminders
Purge(h) ==
    /\ IF PurgeInProgress
       THEN Answer(h, "purge", "-", "-", 0, "-", "noop")
       ELSE IF LockFree
       THEN PurgeLocked(h)
       ELSE /\ Enqueue(h, [IdleCaller EXCEPT !.pc = "lockwait",
                              !.op = "purge"])
            /\ PURGING' = TRUE

\* The awaited task of the purge has ended: pop its uid, go on.
PurgeJoined(h) ==
    PurgeApply(h, callers[h].was,
        PurgeItems(callers[h].phase, Tail(callers[h].todo),
                   [store EXCEPT ![PurgeKinds[callers[h].phase]] =
                        DictPop(@, Head(callers[h].todo).uid)],
                   task))

----------------------------------------------------------------------------
\* A handler suspended in TASKS_LOCK.acquire() is handed the lock.
LockGranted(h) ==
    /\ callers[h].pc = "lockwait"
    /\ TASKS_LOCK = CallerProc(h)
    /\ CASE callers[h].op = "start" ->
              StartLocked(h, callers[h].uid, callers[h].kind,
                          callers[h].minutes, callers[h].chan)
         [] callers[h].op = "stop" ->
              StopLocked(h, callers[h].uid, callers[h].kind)
         [] callers[h].op = "stop_all" ->
              StopAllLocked(h, callers[h].uid)
         [] callers[h].op = "purge" -> PurgeLocked(h)

\* "await task" of cancel_loop returns once the loop's task has ended.
JoinDone(h) ==
    /\ callers[h].pc = "join"
    /\ task[callers[h].wait].st = "done"
    /\ CASE callers[h].op = "stop" -> StopJoined(h)
         [] callers[h].op = "stop_all" -> StopAllJoined(h)
         [] callers[h].op = "purge" -> PurgeJoined(h)

\* The answer sent inside the lock (duplicate start, stop of nothing) has
\* been delivered: the handler returns and the lock is released.
ReplyDone(h) ==
    /\ callers[h].pc = "reply"
    /\ callers' = [callers EXCEPT ![h] = IdleCaller]
    /\ TASKS_LOCK' = LockAfterRelease
    /\ waiters' = WaitersAfterRelease
    /\ out' = NoOut
    /\ UNCHANGED <<store, PURGING, task, nextTask>>

\* "await task" of cancel_loop raises the exception the loop's task ended
\* with, and it is not CancelledError: cancel_loop does not catch it and
\* no handler does.  The exception leaves "async with" (the lock is
\* released) and, in a purge, the try block (finally clears PURGING); the
\* rest of the handler, the pop after cancel_loop included, does not run.
JoinFailed(h) ==
    /\ callers[h].pc = "join"
    /\ task[callers[h].wait].st = "raised"
    /\ callers' = [callers EXCEPT ![h] = IdleCaller]
    /\ TASKS_LOCK' = LockAfterRelease
    /\ waiters' = WaitersAfterRelease
    /\ PURGING' = IF callers[h].op = "purge" THEN PurgingCleared ELSE PURGING
    /\ out' = [Emit(h, callers[h].op, callers[h].uid, callers[h].kind, 0,
                    "-", "raised", callers[h].wait, {})
                 EXCEPT !.was = callers[h].was]
    /\ UNCHANGED <<store, task, nextTask>>

----------------------------------------------------------------------------
Next ==
    \/ \E h \in CmdCallers, p \in StartInputs :
          \* a start that is turned away before it reads the owner and the
          \* kind answers the same for each of them: one is drawn
          IF ~ValidMinutes(p[1]) \/ GateSet
          THEN Start(h, "u1", "hydrate", p[1], p[2], TRUE)
          ELSE \/ Start(h, "u1", "hydrate", p[1], p[2], FALSE)
               \/ \E u \in Users, k \in Kinds :
                     Start(h, u, k, p[1], p[2], TRUE)
    \/ \E h \in CmdCallers, u \in Users, k \in Kinds : Stop(h, u, k)
    \/ \E h \in CmdCallers, u \in Users : StopAll(h, u)
    \/ Purge(Gateway)
    \/ \E h \in Callers : LockGranted(h)
    \/ \E h \in Callers : JoinDone(h)
    \/ \E h \in Callers : ReplyDone(h)
    \/ \E t \in TaskIds : Tick(t)
    \/ \E t \in TaskIds : SendDone(t)
    \/ \E t \in TaskIds : EvictGranted(t)
    \/ \E t \in TaskIds : Cancelled(t)

Spec == Init /\ [][Next]_vars

----------------------------------------------------------------------------
\* The same program with one owner issuing the commands with a valid
\* period and a writable channel: two handlers may be in flight, the
\* gateway disconnects, the loops tick.
LiveOwner == "u1"

LiveCommands ==
    \/ \E h \in CmdCallers, k \in Kinds :
          Start(h, LiveOwner, k, MinMinutes, "c1", TRUE)
    \/ \E h \in CmdCallers, k \in Kinds : Stop(h, LiveOwner, k)
    \/ \E h \in CmdCallers : StopAll(h, LiveOwner)
    \/ Purge(Gateway)

LiveSteps ==
    \/ \E h \in Callers : LockGranted(h)
    \/ \E h \in Callers : JoinDone(h)
    \/ \E h \in Callers : ReplyDone(h)
    \/ \E t \in TaskIds : Tick(t)
    \/ \E t \in TaskIds : SendDone(t)
    \/ \E t \in TaskIds : EvictGranted(t)
    \/ \E t \in TaskIds : Cancelled(t)

LiveNext == LiveCommands \/ LiveSteps

\* The event loop runs every coroutine that is ready: a handler that was
\* handed the lock, a handler whose awaited task or answer is done, a tick
\* that was handed the lock, a cancelled task, a send that the transport
\* completes.  Commands, disconnects and timer ticks are not forced.
Fairness ==
    /\ WF_vars(\E h \in Callers : LockGranted(h))
    /\ WF_vars(\E h \in Callers : JoinDone(h))
    /\ WF_vars(\E h \in Callers : ReplyDone(h))
    /\ WF_vars(\E t \in TaskIds : EvictGranted(t))
    /\ WF_vars(\E t \in TaskIds : Cancelled(t))
    /\ \A t \in TaskIds : WF_vars(SendDone(t))

LiveSpec == Init /\ [][LiveNext]_vars /\ Fairness

\* The same, where the task awaited by cancel_loop may have ended with an
\* exception other than CancelledError.
ErrNext ==
    \/ LiveNext
    \/ \E t \in TaskIds : CancelRaised(t)
    \/ \E h \in Callers : JoinFailed(h)

ErrSpec ==
    /\ Init
    /\ [][ErrNext]_vars
    /\ Fairness
    /\ WF_vars(\E h \in Callers : JoinFailed(h))

----------------------------------------------------------------------------
\* Entries of an owner in the store of a kind, and the loops of the pair
\* that have been started and have not ended.
EntriesOf(u, k) == {i \in 1..Len(store[k]) : store[k][i].uid = u}

LiveLoops(u, k) ==
    {t \in TaskIds :
        IsRunning(task, t) /\ task[t].uid = u /\ task[t].kind = k}

RegistryEmpty == \A k \in Kinds : store[k] = <<>>

\* C1: in every reachable state each (owner, kind) pair has at most one
\* entry in its store and at most one loop that has been started and has
\* not fully stopped.
C1_AtMostOneLive ==
    \A u \in Users, k \in Kinds :
        /\ Cardinality(EntriesOf(u, k)) <= 1
        /\ Cardinality(LiveLoops(u, k)) <= 1

\* A start of a pair has just succeeded while a second start of the same
\* pair is suspended waiting for the lock.
C1_Witness ==
    \E h \in CmdCallers :
        /\ callers[h].pc = "lockwait"
        /\ callers[h].op = "start"
        /\ out.res = "started"
        /\ IsRunning(task, out.task)
        /\ task[out.task].uid = callers[h].uid
        /\ task[out.task].kind = callers[h].kind

\* C2: a start that looks its (owner, kind) up in the registry answers
\* already_active exactly when the store holds an entry of the pair, and
\* then leaves the stores (entry, loop, channel), every loop (state and
\* period) and the number of loops created unchanged.
C2_DuplicateStartLeavesAll ==
    [][(out'.op = "start" /\ out'.res \in {"started", "already_active"})
          => /\ out'.res = "already_active"
                    <=> HasEntry(store, out'.kind, out'.uid)
             /\ out'.res = "already_active"
                    => /\ store' = store
                       /\ task' = task
                       /\ nextTask' = nextTask]_vars

\* A start has been answered already_active while the one entry of the
\* registry holds a running loop of another period and another channel.
C2_Witness ==
    /\ out.op = "start"
    /\ out.res = "already_active"
    /\ \E k \in Kinds :
          /\ Len(store[k]) = 1
          /\ \A k2 \in Kinds \ {k} : store[k2] = <<>>
          /\ IsRunning(task, store[k][1].task)
          /\ task[store[k][1].task].minutes # out.minutes

\* C3: when a purge has completed, no store holds an entry and no loop is
\* running, whatever was running when the purge began.
C3_PurgeLeavesNothing ==
    (out.op = "purge" /\ out.res = "purged")
        => /\ RegistryEmpty
           /\ \A t \in TaskIds : ~IsRunning(task, t)

\* A purge has completed that found two loops running.
C3_Witness ==
    /\ out.op = "purge"
    /\ out.res = "purged"
    /\ Cardinality(out.was) >= 2

----------------------------------------------------------------------------
\* A start command is called in this step: it is answered at once, or it
\* suspends waiting for the lock.  (A start that was suspended before and
\* is answered now is not a call of this step.)
StartResumed ==
    \E h \in CmdCallers :
        /\ callers[h].pc = "lockwait"
        /\ callers[h].op = "start"
        /\ callers'[h].pc # "lockwait"

StartCalled ==
    \/ \E h \in CmdCallers :
          /\ callers[h].pc = "idle"
          /\ callers'[h].pc = "lockwait"
          /\ callers'[h].op = "start"
    \/ out'.op = "start" /\ ~StartResumed

NothingTouched ==
    /\ store' = store
    /\ task' = task
    /\ nextTask' = nextTask

----------------------------------------------------------------------------
\* The loops that have been created, and those whose entry is in a store.
Created(t) == task[t].st # "none"

Present(st, t) ==
    \E k \in Kinds : \E i \in 1..Len(st[k]) : st[k][i].task = t

\* A stop handler pops the entry of its pair in this step and suspends in
\* cancel_loop waiting for the loop's task to end.
StopJoins(h) ==
    /\ callers[h].pc # "join"
    /\ callers'[h].pc = "join"
    /\ callers'[h].op = "stop"

\* A stop handler that was suspended in cancel_loop answers in this step.
StopAnswersFromJoin ==
    \E h \in CmdCallers :
        /\ callers[h].pc = "join"
        /\ callers[h].op = "stop"
        /\ callers'[h].pc = "idle"

\* C5: an entry is removed at most once and is never present again; a
\* tick's self-eviction that gets to its pop removes the entry of its own
\* loop; a stop that answers stopped, or waits for a loop to end, removed
\* the entry of that loop, and a stop that answers not_active found none:
\* of a self-eviction and a stop racing for one entry, one removes it and
\* the other removes nothing.
C5_OneRemovalPath ==
    [][/\ \A t \in TaskIds :
             (Created(t) /\ ~Present(store, t)) => ~Present(store', t)
       /\ (out'.op = "loop" /\ out'.res = "evicted")
             => /\ Present(store, out'.task)
                /\ ~Present(store', out'.task)
                /\ ~HasEntry(store', out'.kind, out'.uid)
       /\ \A h \in CmdCallers :
             StopJoins(h)
                => /\ Present(store, callers'[h].wait)
                   /\ ~Present(store', callers'[h].wait)
       /\ (out'.op = "stop" /\ out'.res = "stopped")
             => /\ ~Present(store', out'.task)
                /\ ~StopAnswersFromJoin => Present(store, out'.task)
       /\ (out'.op = "stop" /\ out'.res = "not_active")
             => /\ ~HasEntry(store, out'.kind, out'.uid)
                /\ store' = store]_vars

\* The self-evicting tick of a loop has just removed its entry while a stop
\* of the same pair is suspended waiting for the lock.
C5_Witness ==
    /\ out.op = "loop"
    /\ out.res = "evicted"
    /\ \E h \in CmdCallers :
          /\ callers[h].pc = "lockwait"
          /\ callers[h].op = "stop"
          /\ callers[h].uid = out.uid
          /\ callers[h].kind = out.kind

\* C6: a stop that finds an entry of its pair removes it; when it answers
\* stopped the entry is absent and the loop has ended, and a loop that has
\* ended never runs again.
C6_StopRemovesAndJoins ==
    [][/\ (out'.op = "stop" /\ out'.res = "stopped")
             => /\ ~HasEntry(store', out'.kind, out'.uid)
                /\ ~Present(store', out'.task)
                /\ task'[out'.task].st = "done"
       /\ \A h \in CmdCallers :
             StopJoins(h)
                => /\ HasEntry(store, callers'[h].kind, callers'[h].uid)
                   /\ EntryTask(store, callers'[h].kind, callers'[h].uid)
                         = callers'[h].wait
                   /\ ~HasEntry(store', callers'[h].kind, callers'[h].uid)
       /\ (out'.op = "stop" /\ out'.res = "not_active")
             => ~HasEntry(store, out'.kind, out'.uid)
       /\ \A t \in TaskIds : task[t].st = "done" => task'[t].st = "done"]_vars

\* A stop has answered stopped after waiting for its loop to end, while
\* another loop is still running.
C6_Witness ==
    /\ out.op = "stop"
    /\ out.res = "stopped"
    /\ task[out.task].st = "done"
    /\ \E t \in TaskIds : IsRunning(task, t)

----------------------------------------------------------------------------
\* C7: a start answers invalid_period exactly when its period is outside
\* 1..1440, and then no entry is added and no loop is created or changed;
\* only a start with a period inside 1..1440 waits for the lock, adds an
\* entry or starts a loop.
C7_PeriodRange ==
    [][/\ out'.op = "start"
             => /\ out'.res = "invalid_period"
                      <=> out'.minutes \notin MinMinutes..MaxMinutes
                /\ out'.res = "invalid_period" => NothingTouched
       /\ \A h \in CmdCallers :
             (callers'[h].pc = "lockwait" /\ callers'[h].op = "start")
                => callers'[h].minutes \in MinMinutes..MaxMinutes
       /\ \A t \in TaskIds :
             (~Created(t) /\ task'[t].st # "none")
                => task'[t].minutes \in MinMinutes..MaxMinutes]_vars

\* A start with a period one above the maximum has been answered
\* invalid_period while the registry holds a running loop.
C7_Witness ==
    /\ out.op = "start"
    /\ out.res = "invalid_period"
    /\ out.minutes = MaxMinutes + 1
    /\ \E k \in Kinds :
          /\ store[k] # <<>>
          /\ IsRunning(task, store[k][1].task)

\* C8: a stop answers not_active exactly when the store of its kind holds
\* no entry of its owner at the time it looks, and then stores, loops and
\* the number of loops created are unchanged, so that the same stop
\* repeated finds the same state and answers the same.
C8_StopOfNothing ==
    [][/\ (out'.op = "stop" /\ out'.res = "not_active")
             => /\ ~HasEntry(store, out'.kind, out'.uid)
                /\ NothingTouched
       /\ (out'.op = "stop" /\ out'.res = "stopped"
              /\ ~StopAnswersFromJoin)
             => HasEntry(store, out'.kind, out'.uid)
       /\ \A h \in CmdCallers :
             StopJoins(h)
                => HasEntry(store, callers'[h].kind, callers'[h].uid)]_vars

\* A stop has been answered not_active while the same stop, called again,
\* waits for the lock, and the registry holds a running loop of another
\* pair.
C8_Witness ==
    /\ out.op = "stop"
    /\ out.res = "not_active"
    /\ \E h \in CmdCallers :
          /\ callers[h].pc = "lockwait"
          /\ callers[h].op = "stop"
          /\ callers[h].uid = out.uid
          /\ callers[h].kind = out.kind
    /\ \E k \in Kinds :
          /\ store[k] # <<>>
          /\ IsRunning(task, store[k][1].task)

----------------------------------------------------------------------------
\* The entries of a store that belong to other owners than u.
RECURSIVE OthersOf(_, _)
OthersOf(s, u) ==
    IF s = <<>> THEN <<>>
    ELSE IF Head(s).uid = u THEN OthersOf(Tail(s), u)
    ELSE <<Head(s)>> \o OthersOf(Tail(s), u)

\* A stopreminders handler pops an entry in this step and suspends in
\* cancel_loop.
StopAllJoins(h) ==
    /\ callers'[h].pc = "join"
    /\ callers'[h].op = "stop_all"
    /\ callers'[h] # callers[h]

\* A stopreminders handler that was suspended in cancel_loop answers in
\* this step.
StopAllFromJoin(h) ==
    /\ callers[h].pc = "join"
    /\ callers[h].op = "stop_all"
    /\ callers'[h].pc = "idle"

\* The kinds the owner had an entry of when the answering stopreminders
\* took the lock.
HadAtTake ==
    IF \E h \in CmdCallers : StopAllFromJoin(h)
    THEN callers[CHOOSE h \in CmdCallers : StopAllFromJoin(h)].had
    ELSE {k \in Kinds : HasEntry(store, k, out'.uid)}

\* C9: a stop_all that passed the gate answers with exactly the kinds its
\* owner had an entry of when it took the lock, answers "no active
\* reminders" exactly when there was none, leaves its owner with no entry
\* and no running loop, and never changes an entry of another owner.
C9_StopAllExact ==
    [][/\ (out'.op = "stop_all" /\ out'.res # "reconnecting")
             => /\ out'.stopped = HadAtTake
                /\ out'.res = "none_active" <=> HadAtTake = {}
                /\ out'.res = "stopped_set" <=> HadAtTake # {}
                /\ \A k \in Kinds : ~HasEntry(store', k, out'.uid)
                /\ \A t \in TaskIds :
                      task[t].uid = out'.uid => ~IsRunning(task', t)
                /\ \A k \in Kinds :
                      OthersOf(store'[k], out'.uid)
                         = OthersOf(store[k], out'.uid)
       /\ \A h \in CmdCallers :
             StopAllJoins(h)
                => \A k \in Kinds :
                      OthersOf(store'[k], callers'[h].uid)
                         = OthersOf(store[k], callers'[h].uid)]_vars

\* A stop_all has answered with both kinds stopped.
C9_Witness ==
    /\ out.op = "stop_all"
    /\ out.res = "stopped_set"
    /\ out.stopped = Kinds

\* A stop_all of one owner has answered while another owner's entry stays.
C9_OtherOwnerKept ==
    /\ out.op = "stop_all"
    /\ out.res = "stopped_set"
    /\ \E k \in Kinds : \E i \in 1..Len(store[k]) :
          store[k][i].uid # out.uid

----------------------------------------------------------------------------
\* C10: no entry is added to a store in a step taken while PURGING is set.
C10_NoInsertWhilePurging ==
    [][PURGING
          => \A k \in Kinds, u \in Users :
                HasEntry(store', k, u) => HasEntry(store, k, u)]_vars

----------------------------------------------------------------------------
\* C11: when a purge has ended because the wait for one entry's task
\* raised, no entry but the one of that task is left in the registry and
\* no loop is running (the purge went on with the remaining entries).
C11_PurgeGoesOnAfterFailure ==
    (out.op = "purge" /\ out.res = "raised")
        => /\ \A k \in Kinds : \A i \in 1..Len(store[k]) :
                 store[k][i].task = out.task
           /\ \A t \in TaskIds : ~IsRunning(task, t)

\* C12: in every state each entry of the registry refers to a loop that
\* has been started and is still running, and each loop that is running
\* and has not been cancelled is referred to by the entry of its owner in
\* the store of its kind.
C12_RegistryMatchesTasks ==
    /\ \A k \in Kinds : \A i \in 1..Len(store[k]) :
          IsRunning(task, store[k][i].task)
    /\ \A t \in TaskIds :
          task[t].st \in {"waiting", "sending", "lockwait"}
             => /\ HasEntry(store, task[t].kind, task[t].uid)
                /\ EntryTask(store, task[t].kind, task[t].uid) = t

\* C13: a handler suspended in cancel_loop, waiting for a loop's task to
\* end, does not hold TASKS_LOCK.
C13_NoJoinUnderLock ==
    \A h \in Callers : callers[h].pc = "join" => TASKS_LOCK # CallerProc(h)

\* The number of purges that hold TASKS_LOCK or wait for it.
PurgesAtLock ==
    Cardinality({i \in 1..Len(waiters) : waiters[i] = CallerProc(Gateway)})
        + (IF TASKS_LOCK = CallerProc(Gateway) THEN 1 ELSE 0)

\* C14: a purge trigger that returns at once does so while a purge is
\* under way and changes no store, loop, lock, queue, handler or PURGING;
\* PURGING is set exactly while the one purge waits for the lock or
\* drains, and never more than one purge holds or awaits the lock.
C14_SecondPurgeIsNoOp ==
    /\ [][(out'.op = "purge" /\ out'.res = "noop")
             => /\ PURGING
                /\ callers[Gateway].pc \in {"lockwait", "join"}
                /\ UNCHANGED <<store, task, nextTask, PURGING, TASKS_LOCK,
                               waiters, callers>>]_vars
    /\ [](PURGING <=> callers[Gateway].pc \in {"lockwait", "join"})
    /\ [](PurgesAtLock <= 1)

\* A purge trigger has returned at once while the purge under way is
\* suspended in cancel_loop.
C14_Witness ==
    /\ out.op = "purge"
    /\ out.res = "noop"
    /\ PURGING
    /\ callers[Gateway].pc = "join"

----------------------------------------------------------------------------
\* The purge leaves purge_all_reminders in this step.
PurgeEnds ==
    /\ callers[Gateway].pc \in {"lockwait", "join"}
    /\ callers'[Gateway].pc = "idle"

\* C15: the step in which a purge ends, by returning or by the exception of
\* a failed wait, leaves PURGING clear; and whenever PURGING is set it is
\* eventually clear.
C15_FlagAlwaysCleared ==
    /\ [][PurgeEnds => ~PURGING']_vars
    /\ (PURGING ~> ~PURGING)

\* A purge has ended because the wait for a loop's task raised, and
\* PURGING is clear.
C15_Witness ==
    /\ out.op = "purge"
    /\ out.res = "raised"
    /\ ~PURGING
    /\ \E k \in Kinds : store[k] # <<>>

\* C16: every loop that has an entry in the registry while PURGING is set
\* eventually has no entry and is not running.
C16_PurgeDrainsAll ==
    \A t \in TaskIds :
        (PURGING /\ Present(store, t))
            ~> (~Present(store, t) /\ ~IsRunning(task, t))

\* A purge is draining the registry, suspended in cancel_loop, while the
\* tick of a loop that still has its entry waits for the lock to evict
\* itself.
C16_Witness ==
    /\ PURGING
    /\ callers[Gateway].pc = "join"
    /\ \E t \in TaskIds : task[t].st = "lockwait" /\ Present(store, t)

\* C17: a loop whose tick waits for the lock to evict itself eventually has
\* ended and has no entry; when a tick has evicted itself its loop has
\* ended and the store of its kind holds no entry of its owner, so that a
\* start of the pair that looks next finds none.
C17_SelfEvictionCompletes ==
    /\ [](out.op = "loop" /\ out.res = "evicted"
             => /\ ~HasEntry(store, out.kind, out.uid)
                /\ ~Present(store, out.task)
                /\ ~IsRunning(task, out.task))
    /\ \A t \in TaskIds :
          (task[t].st = "lockwait")
              ~> (~IsRunning(task, t) /\ ~Present(store, t))

\* A tick has evicted itself with no handler running or suspended, and a
\* loop can still be started.
C17_Witness ==
    /\ out.op = "loop"
    /\ out.res = "evicted"
    /\ \A h \in Callers : callers[h].pc = "idle"
    /\ nextTask < MaxTasks

\* C18: a loop whose send ends does not end with it while its entry stays
\* in the registry (a failed send that is not Forbidden is absorbed).
C18_TransientAbsorbed ==
    [][\A t \in TaskIds :
          (task[t].st = "sending" /\ ~IsRunning(task', t))
             => ~Present(store', t)]_vars

\* C19: a tick that waits for the lock to evict itself still has the entry
\* of its own loop in the store of its kind; the entry a self-eviction
\* removes is the one of its own loop, and every other entry stays.
C19_EvictsOwnEntryOnly ==
    /\ [](\A t \in TaskIds :
             task[t].st = "lockwait"
                => /\ HasEntry(store, task[t].kind, task[t].uid)
                   /\ EntryTask(store, task[t].kind, task[t].uid) = t)
    /\ [][(out'.op = "loop" /\ out'.res = "evicted")
             => /\ HasEntry(store, out'.kind, out'.uid)
                /\ EntryTask(store, out'.kind, out'.uid) = out'.task
                /\ \A k \in Kinds : \A i \in 1..Len(store[k]) :
                      store[k][i].task # out'.task
                         => \E j \in 1..Len(store'[k]) :
                               store'[k][j] = store[k][i]]_vars

\* A tick has evicted itself and has handed the lock to a start of its
\* pair that was waiting for it.
C19_Witness ==
    /\ out.op = "loop"
    /\ out.res = "evicted"
    /\ \E h \in CmdCallers :
          /\ callers[h].pc = "lockwait"
          /\ callers[h].op = "start"
          /\ callers[h].uid = out.uid
          /\ callers[h].kind = out.kind
          /\ TASKS_LOCK = CallerProc(h)

\* C20: the loop a handler waits for in cancel_loop has been cancelled (or
\* has ended), whatever it was suspended in; the handler eventually leaves
\* its handler code and no longer holds the lock.
C20_JoinEnds ==
    /\ [](\A h \in Callers :
             callers[h].pc = "join"
                => task[callers[h].wait].st \in {"cancelling", "done"})
    /\ \A h \in Callers :
          (callers[h].pc = "join")
              ~> (callers[h].pc = "idle" /\ TASKS_LOCK # CallerProc(h))

\* A handler holds the lock and waits for a loop whose tick is itself
\* queued for the lock.
C20_Witness ==
    \E h \in Callers :
        /\ callers[h].pc = "join"
        /\ TASKS_LOCK = CallerProc(h)
        /\ \E i \in 1..Len(waiters) : waiters[i] = TaskProc(callers[h].wait)

====
